---- MODULE Spec2Model ----
\* Command dispatch and safety-execution pipeline of python_terminal.py:
\* process_single_command, the built-in handlers of COMMAND_REGISTRY and
\* execute_command, over a small file system and character-level text.
EXTENDS Integers, Sequences, FiniteSets, TLC

\* ---------------------------------------------------------------------------
\* Text.  A Python str is a sequence of one-character strings.
\* ---------------------------------------------------------------------------
UPPER == <<"A","B","C","D","E","F","G","H","I","J","K","L","M",
           "N","O","P","Q","R","S","T","U","V","W","X","Y","Z">>
LOWERCASE == <<"a","b","c","d","e","f","g","h","i","j","k","l","m",
               "n","o","p","q","r","s","t","u","v","w","x","y","z">>
WS == {" ", "\t"}

MinOf(S) == CHOOSE x \in S : \A y \in S : x <= y
MaxOf(S) == CHOOSE x \in S : \A y \in S : x >= y

\* str.lower()
lowerChar(c) ==
    IF \E i \in 1..26 : UPPER[i] = c
    THEN LOWERCASE[CHOOSE i \in 1..26 : UPPER[i] = c]
    ELSE c
lower(s) == IF s = <<>> THEN <<>> ELSE [i \in 1..Len(s) |-> lowerChar(s[i])]

\* str.strip()
strip(s) ==
    LET idx == {i \in 1..Len(s) : s[i] \notin WS}
    IN  IF idx = {} THEN <<>> ELSE SubSeq(s, MinOf(idx), MaxOf(idx))

\* s[n:]
slice(s, n) == IF n >= Len(s) THEN <<>> ELSE SubSeq(s, n + 1, Len(s))

\* str.split(): the whitespace-delimited tokens
RECURSIVE split(_)
split(s) ==
    LET idx == {i \in 1..Len(s) : s[i] \notin WS}
    IN  IF idx = {} THEN <<>>
        ELSE LET a == MinOf(idx)
                 ends == {j \in a..Len(s) : s[j] \in WS}
                 b == IF ends = {} THEN Len(s) + 1 ELSE MinOf(ends)
             IN  <<SubSeq(s, a, b - 1)>> \o split(slice(s, b - 1))

\* pat in s
contains(s, pat) ==
    \E i \in 1..(Len(s) - Len(pat) + 1) : SubSeq(s, i, i + Len(pat) - 1) = pat

\* s.replace(pat, rep), pat non-empty: leftmost non-overlapping occurrences
RECURSIVE replace(_, _, _)
replace(s, pat, rep) ==
    IF Len(s) < Len(pat) THEN s
    ELSE IF SubSeq(s, 1, Len(pat)) = pat
         THEN rep \o replace(slice(s, Len(pat)), pat, rep)
         ELSE <<s[1]>> \o replace(Tail(s), pat, rep)

startswith(s, pre) == Len(s) >= Len(pre) /\ SubSeq(s, 1, Len(pre)) = pre

\* the quote stripping shared by handle_cd, handle_mkdir and handle_cp
unquote(s) ==
    IF /\ Len(s) >= 1
       /\ \/ s[1] = "\"" /\ s[Len(s)] = "\""
          \/ s[1] = "'" /\ s[Len(s)] = "'"
    THEN IF Len(s) <= 2 THEN <<>> ELSE SubSeq(s, 2, Len(s) - 1)
    ELSE s

\* shlex.split(cmd) raises ValueError when a quotation is left open (the
\* lines of this model hold no backslash); quote is the open quote or "".
RECURSIVE shlexScan(_, _)
shlexScan(s, quote) ==
    IF s = <<>> THEN quote
    ELSE LET c == Head(s)
         IN  IF quote = ""
             THEN shlexScan(Tail(s), IF c \in {"\"", "'"} THEN c ELSE "")
             ELSE shlexScan(Tail(s), IF c = quote THEN "" ELSE quote)
shlexSplits(cmd) == shlexScan(cmd, "") = ""

\* ---------------------------------------------------------------------------
\* State.
\* ---------------------------------------------------------------------------
VARIABLES
    fs,               \* the file system: absolute path |-> [kind, data, mtime]
    cwd,              \* os.getcwd()
    command_history,  \* the in-memory command log
    hist_file,        \* the persisted history file
    config,           \* the active configuration
    ARGS,             \* the parsed command line flags
    platform,         \* platform.system(): "Windows" or another value
    last,             \* the last call: its arguments, result and what it did
    calls,            \* the number of calls made in the session
    pc                \* where the process is: "api" when process_single_command
                      \* and handle_rm are called as functions of the module,
                      \* a position of main() otherwise

vars == <<fs, cwd, command_history, hist_file, config, ARGS, platform, last, calls, pc>>

\* ---------------------------------------------------------------------------
\* Configuration and the risk classifier.
\* ---------------------------------------------------------------------------
DefaultCmdTimeout == 15
DefaultMaxHistorySize == 1000
FallbackCommandTimeout == 15
SavedHistoryLimit == 500

DEFAULT_CONFIG ==
    [cmd_timeout |-> DefaultCmdTimeout,
     save_history |-> TRUE,
     high_risk_commands |->
        <<<<"r","m"," ","-","r","f"," ","/">>,
          <<"f","o","r","m","a","t"," ","c",":">>,
          <<"d","e","l"," ","*",".","*"," ","/","q">>>>,
     max_history_size |-> DefaultMaxHistorySize]

high_risk_patterns ==
    <<<<"r","m"," ","-","r","f">>,
      <<"r","m"," ","-","r"," ","*">>,
      <<"s","u","d","o"," ","r","m">>,
      <<"d","d"," ","i","f","=">>,
      <<"m","k","f","s",".">>,
      <<"d","e","l"," ","*">>,
      <<"r","d"," ","/","s"," ","/","q">>,
      <<"f","o","r","m","a","t"," ">>,
      <<"r","m","d","i","r"," ","/","s"," ","/","q">>,
      <<">",":">>>>

is_high_risk_command(cmd) ==
    LET cmd_lower == strip(lower(cmd))
    IN  \/ \E i \in 1..Len(high_risk_patterns) :
              contains(cmd_lower, high_risk_patterns[i])
        \/ \E i \in 1..Len(config.high_risk_commands) :
              contains(cmd_lower, lower(config.high_risk_commands[i]))

\* ---------------------------------------------------------------------------
\* File system.  Paths are text; a relative path is resolved against cwd.
\* Paths of the model are normalised: no "..", no doubled or trailing "/".
\* ---------------------------------------------------------------------------
HOME == <<"/","h">>
WORK == <<"/","w">>

IsAbs(p) == p # <<>> /\ p[1] = "/"
resolve(p) == IF IsAbs(p) THEN p ELSE cwd \o <<"/">> \o p

path_exists(f, p) == p # <<>> /\ resolve(p) \in DOMAIN f
path_isdir(f, p) == path_exists(f, p) /\ f[resolve(p)].kind = "dir"
path_isfile(f, p) == path_exists(f, p) /\ f[resolve(p)].kind = "file"

\* the strict ancestors of an absolute path, and what lies under it
Ancestors(ap) == {SubSeq(ap, 1, i - 1) : i \in {j \in 2..Len(ap) : ap[j] = "/"}}
Under(f, ap) == {q \in DOMAIN f : q = ap \/ startswith(q, ap \o <<"/">>)}

basename(p) ==
    LET sl == {i \in 1..Len(p) : p[i] = "/"}
    IN  IF sl = {} THEN p ELSE slice(p, MaxOf(sl))

DirEntry == [kind |-> "dir", data |-> 0, mtime |-> 0]

\* shutil.rmtree(p) on an existing path: "ok" and the tree is gone, or the
\* error raised for a path that is not a directory
rmtree(f, p) ==
    IF f[resolve(p)].kind = "dir"
    THEN [err |-> "ok",
          fs |-> [q \in DOMAIN f \ Under(f, resolve(p)) |-> f[q]]]
    ELSE [err |-> "NotADirectoryError", fs |-> f]

\* os.remove(p) on an existing file
remove(f, p) == [q \in DOMAIN f \ {resolve(p)} |-> f[q]]

\* os.makedirs(p) without exist_ok: an existing path is an error
makedirs_no_exist_ok(f, p) ==
    LET ap == resolve(p)
        chain == Ancestors(ap) \cup {ap}
    IN  IF \E a \in Ancestors(ap) : a \in DOMAIN f /\ f[a].kind = "file"
        THEN [err |-> "NotADirectoryError", fs |-> f]
        ELSE IF ap \in DOMAIN f
        THEN [err |-> "FileExistsError", fs |-> f]
        ELSE [err |-> "ok",
              fs |-> [q \in DOMAIN f \cup chain |->
                         IF q \in DOMAIN f THEN f[q] ELSE DirEntry]]

\* os.makedirs(p, exist_ok=True), p non-empty
makedirs(f, p) ==
    LET ap == resolve(p)
        chain == Ancestors(ap) \cup {ap}
    IN  IF \E a \in Ancestors(ap) : a \in DOMAIN f /\ f[a].kind = "file"
        THEN [err |-> "NotADirectoryError", fs |-> f]
        ELSE IF ap \in DOMAIN f /\ f[ap].kind = "file"
        THEN [err |-> "FileExistsError", fs |-> f]
        ELSE [err |-> "ok",
              fs |-> [q \in DOMAIN f \cup chain |->
                         IF q \in DOMAIN f THEN f[q] ELSE DirEntry]]

\* a copy of the content alone: the new file gets the time of the copy
CopyTime == 2
copy_content_only(f, src, dst) ==
    LET as == resolve(src)
        ad == resolve(dst)
    IN  IF dst = <<>> \/ \E a \in Ancestors(ad) : a \notin DOMAIN f \/ f[a].kind = "file"
        THEN [err |-> "FileNotFoundError", fs |-> f]
        ELSE IF ad \in DOMAIN f /\ f[ad].kind = "dir"
        THEN [err |-> "IsADirectoryError", fs |-> f]
        ELSE IF ad = as
        THEN [err |-> "SameFileError", fs |-> f]
        ELSE [err |-> "ok",
              fs |-> [q \in DOMAIN f \cup {ad} |->
                         IF q = ad THEN [f[as] EXCEPT !.mtime = CopyTime] ELSE f[q]]]

\* shutil.copy2(src, dst): src an existing file; content and mtime are copied
copy2(f, src, dst) ==
    LET as == resolve(src)
        ad == resolve(dst)
    IN  IF dst = <<>> \/ \E a \in Ancestors(ad) : a \notin DOMAIN f \/ f[a].kind = "file"
        THEN [err |-> "FileNotFoundError", fs |-> f]
        ELSE IF ad \in DOMAIN f /\ f[ad].kind = "dir"
        THEN [err |-> "IsADirectoryError", fs |-> f]
        ELSE IF ad = as
        THEN [err |-> "SameFileError", fs |-> f]
        ELSE [err |-> "ok",
              fs |-> [q \in DOMAIN f \cup {ad} |-> IF q = ad THEN f[as] ELSE f[q]]]

\* ---------------------------------------------------------------------------
\* What a call does, in order: one event per print, input() and child
\* process.  arg is the text the event carries (the answer typed at a prompt,
\* the path or the command line), n the timeout of a child (NoTimeout: none).
\* ---------------------------------------------------------------------------
NoTimeout == -1
Ev(e, a, n) == [ev |-> e, arg |-> a, n |-> n]
Result(f, c, out, ret) == [fs |-> f, cwd |-> c, out |-> out, ret |-> ret]

\* the answers typed at a confirmation prompt, and confirm.lower() == 'y'
Answers == {<<"y">>, <<"Y">>, <<"n">>, <<"y","e","s">>}
affirmative(confirm) == lower(confirm) = <<"y">>

\* how a child process of the model ends: with output on stdout and stderr,
\* or with an exception raised by subprocess.run
Outcomes == {"outerr", "TimeoutExpired", "FileNotFoundError"}

\* ---------------------------------------------------------------------------
\* handle_rm(command, auto_confirm); a1 answers the high-risk prompt, a2 the
\* delete prompt.
\* ---------------------------------------------------------------------------
rm_high_risk(command) ==
    LET full_command == lower(command)
    IN  \/ contains(full_command, <<"-","r","f">>)
        \/ contains(full_command, <<"-","r"," ","*">>)
        \/ contains(full_command, <<"r","d"," ","/","s">>)
        \/ contains(full_command, <<"r","m","d","i","r"," ","/","s">>)

rm_is_dir(command, target) ==
    path_isdir(fs, target) \/ contains(command, <<"-","r">>)

rm_dir_target(target) == strip(replace(target, <<"-","r">>, <<>>))

handle_rm(command, auto_confirm, a1, a2) ==
    LET target == strip(slice(command, 3))
        auto == auto_confirm \/ ARGS.yes
        high == rm_high_risk(command)
        gate == IF high /\ ~auto
                THEN <<Ev("prompt_rm_high_risk", a1, 0)>> ELSE <<>>
        dtarget == rm_dir_target(target)
        ask(kind, t) == IF auto THEN <<Ev("notice_auto_confirm", t, 0)>>
                        ELSE <<Ev(kind, a2, 0)>>
        go == auto \/ affirmative(a2)
    IN  IF target = <<>>
        THEN Result(fs, cwd, <<Ev("err_rm_no_target", <<>>, 0)>>, "continue")
        ELSE IF high /\ ~auto /\ ~affirmative(a1)
        THEN Result(fs, cwd, gate \o <<Ev("msg_cancelled", target, 0)>>, "continue")
        ELSE IF rm_is_dir(command, target)
        THEN IF ~path_exists(fs, dtarget)
             THEN Result(fs, cwd,
                         gate \o <<Ev("err_dir_not_found", dtarget, 0)>>, "continue")
             ELSE IF ~go
             THEN Result(fs, cwd,
                         gate \o ask("prompt_rm_dir", dtarget)
                              \o <<Ev("msg_cancelled", dtarget, 0)>>, "continue")
             ELSE LET r == rmtree(fs, dtarget)
                  IN  Result(r.fs, cwd,
                             gate \o ask("prompt_rm_dir", dtarget)
                                  \o <<Ev("rmtree", dtarget, 0)>>
                                  \o <<Ev(IF r.err = "ok" THEN "msg_dir_deleted"
                                          ELSE "err_delete_failed", dtarget, 0)>>,
                             "continue")
        ELSE IF ~path_isfile(fs, target)
             THEN Result(fs, cwd,
                         gate \o <<Ev("err_file_not_found", target, 0)>>, "continue")
             ELSE IF ~go
             THEN Result(fs, cwd,
                         gate \o ask("prompt_rm_file", target)
                              \o <<Ev("msg_cancelled", target, 0)>>, "continue")
             ELSE Result(remove(fs, target), cwd,
                         gate \o ask("prompt_rm_file", target)
                              \o <<Ev("remove", target, 0)>>
                              \o <<Ev("msg_file_deleted", target, 0)>>,
                         "continue")

\* ---------------------------------------------------------------------------
\* handle_cd, handle_mkdir, handle_cp.
\* ---------------------------------------------------------------------------
handle_cd(command) ==
    LET arg == strip(slice(command, 3))
        new_dir == unquote(IF arg = <<>> THEN HOME ELSE arg)
    IN  IF ~path_exists(fs, new_dir)
        THEN Result(fs, cwd, <<Ev("err_cd_not_found", new_dir, 0)>>, "continue")
        ELSE IF ~path_isdir(fs, new_dir)
        THEN Result(fs, cwd, <<Ev("err_cd_not_a_directory", new_dir, 0)>>, "continue")
        ELSE Result(fs, resolve(new_dir), <<>>, "continue")

handle_mkdir(command) ==
    LET arg == strip(slice(command, 6))
        dir_name == unquote(arg)
        r == makedirs(fs, dir_name)
    IN  IF arg = <<>>
        THEN Result(fs, cwd, <<Ev("err_mkdir_no_name", <<>>, 0)>>, "continue")
        ELSE IF dir_name = <<>>
        THEN Result(fs, cwd, <<Ev("err_mkdir_failed", dir_name, 0)>>, "continue")
        ELSE IF r.err = "ok"
        THEN Result(r.fs, cwd, <<Ev("msg_mkdir_ok", dir_name, 0)>>, "continue")
        ELSE Result(fs, cwd, <<Ev("err_mkdir_failed", dir_name, 0)>>, "continue")

\* command.split(maxsplit=2): at most three parts, the third keeping its
\* inner and trailing whitespace
lstrip(s) ==
    LET idx == {i \in 1..Len(s) : s[i] \notin WS}
    IN  IF idx = {} THEN <<>> ELSE slice(s, MinOf(idx) - 1)
firstToken(s) ==
    LET t == lstrip(s)
        ends == {j \in 1..Len(t) : t[j] \in WS}
    IN  IF ends = {} THEN t ELSE SubSeq(t, 1, MinOf(ends) - 1)
afterToken(s) ==
    LET t == lstrip(s) IN lstrip(slice(t, Len(firstToken(s))))
split2(s) ==
    LET p1 == firstToken(s)
        r1 == afterToken(s)
        p2 == firstToken(r1)
        r2 == afterToken(r1)
    IN  IF p1 = <<>> THEN <<>>
        ELSE IF p2 = <<>> THEN <<p1>>
        ELSE IF r2 = <<>> THEN <<p1, p2>>
        ELSE <<p1, p2, r2>>

handle_cp(command) ==
    LET parts == split2(command)
        src == unquote(parts[2])
        dst0 == unquote(parts[3])
        dst == IF path_isdir(fs, dst0)
               THEN dst0 \o <<"/">> \o basename(src) ELSE dst0
        r == copy2(fs, src, dst)
    IN  IF Len(parts) < 3
        THEN Result(fs, cwd, <<Ev("err_cp_usage", <<>>, 0)>>, "continue")
        ELSE IF ~path_isfile(fs, src)
        THEN Result(fs, cwd, <<Ev("err_cp_source_not_found", src, 0)>>, "continue")
        ELSE IF r.err = "ok"
        THEN Result(r.fs, cwd, <<Ev("copy2", dst, 0), Ev("msg_cp_ok", dst, 0)>>,
                    "continue")
        ELSE Result(fs, cwd, <<Ev("copy2", dst, 0), Ev("err_cp_failed", dst, 0)>>,
                    "continue")

\* ---------------------------------------------------------------------------
\* Child processes.  The children of the model's lines leave fs alone.
\* ---------------------------------------------------------------------------
\* what follows subprocess.run(..., capture_output=True): the prints of the
\* captured output, or the message of the except clause
afterRun(cmd, timeout, o) ==
    CASE o = "out" -> <<Ev("print_stdout", cmd, 0)>>
      [] o = "err" -> <<Ev("print_stderr", cmd, 0)>>
      [] o = "outerr" -> <<Ev("print_stdout", cmd, 0), Ev("print_stderr", cmd, 0)>>
      [] o = "none" -> <<>>
      [] o = "TimeoutExpired" -> <<Ev("err_timeout", cmd, timeout)>>
      [] o = "PermissionError" -> <<Ev("err_permission", cmd, 0)>>
      [] o = "FileNotFoundError" -> <<Ev("err_command_not_found", cmd, 0)>>
      [] o = "OSError" -> <<Ev("err_os", cmd, 0)>>

\* the exceptions of subprocess.run that mean no child process was started
LaunchFailures == {"PermissionError", "FileNotFoundError", "OSError"}

\* one subprocess.run of cmd under timeout: through the shell on Windows and
\* when shlex.split fails, as an argument vector otherwise; "child" is the
\* child process it starts
run(cmd, timeout, o) ==
    <<Ev(IF platform = "Windows" \/ ~shlexSplits(cmd)
         THEN "spawn_shell" ELSE "spawn_argv", cmd, timeout)>>
    \o (IF o \in LaunchFailures THEN <<>> ELSE <<Ev("child", cmd, timeout)>>)
    \o afterRun(cmd, timeout, o)

\* execute_command(cmd): the function body holds the gate and the run twice,
\* the second time reading the timeout under the key 'command_timeout'
execute_command(cmd, a1, a2, o1, o2) ==
    LET flagged == is_high_risk_command(cmd)
        gate(a) == IF flagged THEN <<Ev("prompt_exec", a, 0)>> ELSE <<>>
        pass(a) == ~flagged \/ affirmative(a)
        cancel == <<Ev("msg_cancelled", cmd, 0)>>
    IN  IF ~pass(a1) THEN gate(a1) \o cancel
        ELSE gate(a1) \o run(cmd, config.cmd_timeout, o1)
             \o gate(a2)
             \o (IF pass(a2) THEN run(cmd, FallbackCommandTimeout, o2) ELSE cancel)

\* enhanced_dir(args): the native listing command, run with no timeout; any
\* exception falls back to the listing computed in Python.  With no timeout
\* there is no TimeoutExpired: a child that never exits is waited on forever.
DirOutcomes == (Outcomes \ {"TimeoutExpired"}) \cup {"never_exits"}
enhanced_dir(args, o) ==
    LET cmd == IF platform = "Windows"
               THEN IF args = <<>> THEN <<"d","i","r"," ","/","A"," ","/","W">>
                    ELSE <<"d","i","r"," ">> \o args \o <<" ","/","A"," ","/","W">>
               ELSE IF args = <<>> THEN <<"l","s"," ","-","l","a">>
                    ELSE <<"l","s"," ","-","l","a"," ">> \o args
    IN  IF platform # "Windows" /\ ~shlexSplits(cmd)
        THEN <<Ev("fallback_listing", cwd, 0)>>
        ELSE <<Ev(IF platform = "Windows" THEN "spawn_shell" ELSE "spawn_argv", cmd,
                  NoTimeout)>>
             \o (IF o \in LaunchFailures THEN <<>> ELSE <<Ev("child", cmd, NoTimeout)>>)
             \o (IF o \in {"out", "err", "outerr", "none"}
                 THEN afterRun(cmd, 0, o)
                 ELSE IF o = "never_exits" THEN <<>>
                 ELSE <<Ev("fallback_listing", cwd, 0)>>)

\* handle_dir(command): returns True once enhanced_dir returns
handle_dir(command, o) ==
    LET args == strip(slice(command, 4))
        waits == (platform = "Windows" \/ shlexSplits(<<"l","s"," ","-","l","a"," ">> \o args))
    IN  Result(fs, cwd, enhanced_dir(args, o),
               IF o = "never_exits" /\ waits THEN "blocked" ELSE "continue")

\* display_help, clear_screen and the pwd lambda
display_help ==
    <<Ev("print_help", <<>>, 0)>>
    \o (IF ~(ARGS.command \/ ARGS.quiet)
        THEN <<Ev("prompt_help_enter", <<>>, 0)>> ELSE <<>>)
clear_screen ==
    <<Ev("os_system",
         IF platform = "Windows" THEN <<"c","l","s">> ELSE <<"c","l","e","a","r">>, 0)>>

\* handle_kali_tool(command): the tool name is the first token as typed
KaliToolInfo ==
    {<<"n","m","a","p">>, <<"m","e","t","a","s","p","l","o","i","t">>,
     <<"b","u","r","p","s","u","i","t","e">>, <<"w","i","r","e","s","h","a","r","k">>,
     <<"j","o","h","n">>, <<"a","i","r","c","r","a","c","k","-","n","g">>,
     <<"s","q","l","m","a","p">>, <<"h","y","d","r","a">>,
     <<"n","i","k","t","o">>, <<"g","o","b","u","s","t","e","r">>}
K_kali_tools == <<"k","a","l","i","_","t","o","o","l","s">>

kali_tool_name(command) ==
    LET parts == split(command) IN IF parts = <<>> THEN <<>> ELSE parts[1]

handle_kali_tool(command) ==
    LET tool_name == kali_tool_name(command)
    IN  IF tool_name = K_kali_tools
        THEN Result(fs, cwd, <<Ev("print_kali_list", <<>>, 0)>>, "continue")
        ELSE IF tool_name \in KaliToolInfo
        THEN Result(fs, cwd, <<Ev("print_kali_info", tool_name, 0)>>, "continue")
        ELSE Result(fs, cwd, <<>>, "stop")

\* ---------------------------------------------------------------------------
\* COMMAND_REGISTRY as register_all_commands fills it, and the dispatcher.
\* ---------------------------------------------------------------------------
K_cd == <<"c","d">>
K_dir == <<"d","i","r">>
K_mkdir == <<"m","k","d","i","r">>
K_rm == <<"r","m">>
K_cp == <<"c","p">>
K_exit == <<"e","x","i","t">>
K_quit == <<"q","u","i","t">>
K_help == <<"h","e","l","p">>
K_cls == <<"c","l","s">>
K_clear == <<"c","l","e","a","r">>
K_pwd == <<"p","w","d">>

COMMAND_REGISTRY ==
    {K_cd, K_dir, K_mkdir, K_rm, K_cp, K_exit, K_quit, K_help, K_cls, K_clear,
     K_pwd, K_kali_tools} \cup KaliToolInfo

\* a lookup that accepts a registered keyword as a prefix of the token
registered_by_prefix(cmd_key) ==
    \E k \in COMMAND_REGISTRY : startswith(cmd_key, k)

\* cmd_key in COMMAND_REGISTRY
registered(cmd_key) == cmd_key \in COMMAND_REGISTRY

\* command.lower().strip().split()[0], or "" for a blank line
cmd_key_of(command) ==
    LET cmd_parts == split(strip(lower(command)))
    IN  IF cmd_parts = <<>> THEN <<>> ELSE cmd_parts[1]

\* a history update that records every line, blank ones included
append_history_any_line(h, command) ==
    LET h1 == Append(h, command)
    IN  IF Len(h1) > 1 /\ h1[Len(h1)] = h1[Len(h1) - 1]
        THEN SubSeq(h1, 1, Len(h1) - 1) ELSE h1

\* a history update that keeps an immediate repeat
append_history_keep_repeat(h, command) ==
    IF strip(command) = <<>> THEN h ELSE Append(h, command)

\* the history update at the head of process_single_command
append_history(h, command) ==
    IF strip(command) = <<>> THEN h
    ELSE LET h1 == Append(h, command)
         IN  IF Len(h1) > 1 /\ h1[Len(h1)] = h1[Len(h1) - 1]
             THEN SubSeq(h1, 1, Len(h1) - 1) ELSE h1

\* save_history(): what the history file holds afterwards
save_history(h) ==
    IF Len(h) > SavedHistoryLimit
    THEN SubSeq(h, Len(h) - SavedHistoryLimit + 1, Len(h)) ELSE h

\* exit/quit: a persistence that ignores the configuration
exit_saves_always(cfg) == TRUE

\* exit/quit: config.get('save_history', True)
exit_saves(cfg) == cfg.save_history

\* load_history(): one entry per line of the file, stripped
load_history(file) == [i \in 1..Len(file) |-> strip(file[i])]

\* load_config() on a configuration file holding the JSON object user_config:
\* every key of DEFAULT_CONFIG the object holds replaces the value in config,
\* as it stands in the file
load_config(cfg, user_config) ==
    [key \in DOMAIN DEFAULT_CONFIG |->
        IF key \in DOMAIN user_config THEN user_config[key] ELSE cfg[key]]

\* cmd_rm is defined with one parameter; process_single_command calls the
\* registry entry of rm with two arguments
CmdRmParams == 1
RmCallArgs == 2

\* COMMAND_REGISTRY[cmd_key](...) for a registered key other than exit/quit
call_registered(cmd_key, command, final_auto_confirm, a1, a2, o) ==
    CASE cmd_key = K_rm ->
            IF RmCallArgs # CmdRmParams
            THEN Result(fs, cwd, <<Ev("TypeError", command, 0)>>, "raise")
            ELSE handle_rm(command, FALSE, a1, a2)
      [] cmd_key = K_cd -> handle_cd(command)
      [] cmd_key = K_dir -> handle_dir(command, o)
      [] cmd_key = K_mkdir -> handle_mkdir(command)
      [] cmd_key = K_cp -> handle_cp(command)
      [] cmd_key = K_help -> Result(fs, cwd, display_help, "continue")
      [] cmd_key \in {K_cls, K_clear} -> Result(fs, cwd, clear_screen, "continue")
      [] cmd_key = K_pwd -> Result(fs, cwd, <<Ev("print_cwd", cwd, 0)>>, "continue")
      [] OTHER -> handle_kali_tool(command)

\* ---------------------------------------------------------------------------
\* The lines typed in the model, and its bounds.
\* ---------------------------------------------------------------------------
MaxCalls == 1
MaxSessionCalls == 3

RmLines ==
    {<<"r","m"," ","-","r"," ","d">>,          \* rm -r d
     <<"r","m"," ","-","r","f"," ","d">>,      \* rm -rf d
     <<"r","m"," ","-","r","f"," ","x">>,      \* rm -rf x     (x does not exist)
     <<"r","m"," ","-","r"," ","x">>,          \* rm -r x
     <<"r","m"," ","x">>,                      \* rm x
     <<"r","m"," ","a","-","r","b">>,          \* rm a-rb      (a file; ab is a directory)
     <<"r","m"," ","f">>,                      \* rm f
     <<"r","m">>}                              \* rm

Lines ==
    {<<"r","m"," ","-","r"," ","d">>,          \* rm -r d
     <<"r","m"," ","x">>,                      \* rm x
     <<"l","s">>,                              \* ls
     <<"l","s"," ","\"">>,                     \* ls "
     <<"d","d"," ","i","f","=","f">>,          \* dd if=f
     <<"N","M","A","P">>,                      \* NMAP
     <<"n","m","a","p">>,                      \* nmap
     <<"k","a","l","i","_","t","o","o","l","s">>,
     <<"m","k","d","i","r","x"," ","d">>,      \* mkdirx d
     <<"m","k","d","i","r"," ","d">>,          \* mkdir d
     <<"e","x","i","t">>,                      \* exit
     <<"Q","u","i","t">>,                      \* Quit
     <<"p","w","d">>,
     <<"c","d"," ","d">>,                      \* cd d
     <<"c","d">>,
     <<"d","i","r">>,
     <<"c","p"," ","f"," ","d">>,              \* cp f d
     <<"c","p"," ","x"," ","d">>,              \* cp x d      (x does not exist)
     <<" "," ","m","k","d","i","r"," ","n">>,  \* mkdir n, two blanks before it
     <<" "," ","c","d"," ","d">>,              \* cd d, two blanks before it
     <<"d","i","r"," ","&"," ","d","e","l"," ","*">>,   \* dir & del *
     <<"h","e","l","p">>,
     <<"c","l","s">>,
     <<"f","o","r","m","a","t"," ">>,          \* format, a blank after it
     <<>>,
     <<" ">>}

\* the lines typed in a session of main(), and the -c argument
SessionLines ==
    {<<"l","s">>, <<"p","w","d">>, <<"r","m"," ","x">>, <<"d","i","r">>,
     <<"m","k","d","i","r"," ","n">>, <<"e","x","i","t">>, <<" ">>}

\* the JSON objects found in the configuration file at start; a first run
\* writes DEFAULT_CONFIG to the file before it is loaded
ConfigFiles ==
    {DEFAULT_CONFIG,
     [cmd_timeout |-> 1],
     [cmd_timeout |-> 0],
     [save_history |-> FALSE],
     [max_history_size |-> 1]}

\* the history files found at start
HistoryFiles == {<<>>, <<<<"l","s">>, <<"l","s"," ">>>>}

InitialFs ==
    LET F == [kind |-> "file", data |-> 1, mtime |-> 1]
    IN  (<<"/","h">> :> DirEntry) @@ (<<"/","w">> :> DirEntry)
        @@ (<<"/","w","/","d">> :> DirEntry)
        @@ (<<"/","w","/","d","/","g">> :> F)
        @@ (<<"/","w","/","f">> :> F)
        @@ (<<"/","w","/","a","-","r","b">> :> F)
        @@ (<<"/","w","/","a","b">> :> DirEntry)

NoCall ==
    [op |-> "none", command |-> <<>>, auto_confirm |-> FALSE, route |-> "none",
     ret |-> "none", out |-> <<>>,
     pre |-> [fs |-> InitialFs, cwd |-> WORK, history |-> <<>>, hist_file |-> <<>>]]

Init ==
    /\ fs = InitialFs
    /\ cwd = WORK
    /\ command_history = <<>>
    /\ hist_file = <<>>
    /\ config = DEFAULT_CONFIG
    /\ ARGS \in [yes : BOOLEAN, command : BOOLEAN, quiet : {FALSE},
                 no_history : {FALSE}]
    /\ platform \in {"Windows", "Linux"}
    /\ last = NoCall
    /\ calls = 0
    /\ pc = "api"

\* the process at the entry of main(): the flags parsed, nothing loaded yet
SessionInit ==
    /\ fs = InitialFs
    /\ cwd = WORK
    /\ command_history = <<>>
    /\ hist_file \in HistoryFiles
    /\ config = DEFAULT_CONFIG
    /\ ARGS \in [yes : {FALSE}, command : BOOLEAN, quiet : {FALSE},
                 no_history : BOOLEAN]
    /\ platform = "Linux"
    /\ last = NoCall
    /\ calls = 0
    /\ pc = "main"

Pre == [fs |-> fs, cwd |-> cwd, history |-> command_history, hist_file |-> hist_file]

Called(op, command, auto_confirm, route, ret, out) ==
    [op |-> op, command |-> command, auto_confirm |-> auto_confirm,
     route |-> route, ret |-> ret, out |-> out, pre |-> Pre]

\* the outcomes of the second run of a command after its first run ended
\* with o1: a command that cannot be launched cannot be launched again, one
\* that was launched is launched again and may take another time to end
SecondOutcomes(o1) ==
    IF o1 \in LaunchFailures THEN {o1} ELSE Outcomes \ LaunchFailures

\* process_single_command is called as a function of the module ("api"), by
\* main for the -c argument ("single") or by the loop of main ("prompt")
CanDispatch ==
    /\ pc \in {"api", "single", "prompt"}
    /\ calls < (IF pc = "api" THEN MaxCalls ELSE MaxSessionCalls)

\* where the process stands after process_single_command ended with ret:
\* main does not catch the exception of the -c command; the loop prints it
\* and goes on, and leaves through its finally block on stop
AfterDispatch(ret) ==
    CASE pc = "api" -> "api"
      [] ret = "blocked" -> "blocked"
      [] pc = "single" -> IF ret = "raise" THEN "crash" ELSE "single_done"
      [] OTHER -> IF ret = "stop" THEN "finally" ELSE "prompt"

\* process_single_command(command, auto_confirm), by the branch it takes
DispatchExit(command, auto_confirm) ==
    /\ CanDispatch
    /\ cmd_key_of(command) \in {K_exit, K_quit}
    /\ command_history' = append_history(command_history, command)
    /\ hist_file' = IF exit_saves(config)
                    THEN save_history(command_history') ELSE hist_file
    /\ last' = Called("dispatch", command, auto_confirm, "exit", "stop",
                      IF exit_saves(config)
                      THEN <<Ev("save_history", <<>>, 0)>> ELSE <<>>)
    /\ calls' = calls + 1
    /\ pc' = AfterDispatch("stop")
    /\ UNCHANGED <<fs, cwd, config, ARGS, platform>>

DispatchEmpty(command, auto_confirm) ==
    /\ CanDispatch
    /\ cmd_key_of(command) = <<>>
    /\ command_history' = append_history(command_history, command)
    /\ last' = Called("dispatch", command, auto_confirm, "empty", "continue", <<>>)
    /\ calls' = calls + 1
    /\ pc' = AfterDispatch("continue")
    /\ UNCHANGED <<fs, cwd, hist_file, config, ARGS, platform>>

DispatchRegistered(command, auto_confirm) ==
    LET cmd_key == cmd_key_of(command)
        final_auto_confirm == auto_confirm \/ ARGS.yes
    IN  /\ CanDispatch
        /\ cmd_key \notin {K_exit, K_quit, <<>>}
        /\ registered(cmd_key)
        /\ \E a1 \in (IF cmd_key = K_rm THEN Answers ELSE {<<>>}),
              a2 \in (IF cmd_key = K_rm THEN Answers ELSE {<<>>}),
              o \in (IF cmd_key = K_dir THEN DirOutcomes ELSE {"outerr"}) :
              LET r == call_registered(cmd_key, command, final_auto_confirm, a1, a2, o)
              IN  /\ fs' = r.fs
                  /\ cwd' = r.cwd
                  /\ last' = Called("dispatch", command, auto_confirm,
                                    "registered", r.ret, r.out)
                  /\ pc' = AfterDispatch(r.ret)
        /\ command_history' = append_history(command_history, command)
        /\ calls' = calls + 1
        /\ UNCHANGED <<hist_file, config, ARGS, platform>>

DispatchExternal(command, auto_confirm) ==
    LET cmd_key == cmd_key_of(command)
        flagged == is_high_risk_command(command)
    IN  /\ CanDispatch
        /\ cmd_key \notin {K_exit, K_quit, <<>>}
        /\ ~registered(cmd_key)
        /\ \E a1 \in (IF flagged THEN Answers ELSE {<<>>}) :
           \E a2 \in (IF flagged /\ affirmative(a1) THEN Answers ELSE {<<>>}) :
           \E o1 \in (IF ~flagged \/ affirmative(a1) THEN Outcomes ELSE {"outerr"}) :
           \E o2 \in (IF ~flagged \/ (affirmative(a1) /\ affirmative(a2))
                      THEN SecondOutcomes(o1) ELSE {"outerr"}) :
              last' = Called("dispatch", command, auto_confirm, "external",
                             "continue", execute_command(command, a1, a2, o1, o2))
        /\ command_history' = append_history(command_history, command)
        /\ calls' = calls + 1
        /\ pc' = AfterDispatch("continue")
        /\ UNCHANGED <<fs, cwd, hist_file, config, ARGS, platform>>

\* handle_rm(command, auto_confirm) called as a function of the module
CallHandleRm(command, auto_confirm) ==
    LET auto == auto_confirm \/ ARGS.yes
    IN  /\ pc = "api"
        /\ calls < MaxCalls
        /\ \E a1 \in (IF rm_high_risk(command) /\ ~auto THEN Answers ELSE {<<>>}) :
           \E a2 \in (IF ~auto THEN Answers ELSE {<<>>}) :
              LET r == handle_rm(command, auto_confirm, a1, a2)
              IN  /\ fs' = r.fs
                  /\ last' = Called("handle_rm", command, auto_confirm,
                                    "handle_rm", r.ret, r.out)
        /\ calls' = calls + 1
        /\ UNCHANGED <<cwd, command_history, hist_file, config, ARGS, platform, pc>>

Next ==
    \/ \E command \in Lines, auto_confirm \in BOOLEAN :
          \/ DispatchExit(command, auto_confirm)
          \/ DispatchEmpty(command, auto_confirm)
          \/ DispatchRegistered(command, auto_confirm)
          \/ DispatchExternal(command, auto_confirm)
    \/ \E command \in RmLines, auto_confirm \in BOOLEAN :
          CallHandleRm(command, auto_confirm)

Spec == Init /\ [][Next]_vars

\* ---------------------------------------------------------------------------
\* main(): start, the -c command or the interactive loop, and the way out.
\* readline is taken as unavailable, so the history file is written by
\* save_history only.
\* ---------------------------------------------------------------------------
\* main up to the mode switch: load_config and load_history
Startup(user_config) ==
    /\ pc = "main"
    /\ config' = load_config(config, user_config)
    /\ command_history' = load_history(hist_file)
    /\ pc' = IF ARGS.command THEN "single" ELSE "prompt"
    /\ last' = Called("startup", <<>>, FALSE, "main", "none", <<>>)
    /\ UNCHANGED <<fs, cwd, hist_file, ARGS, platform, calls>>

\* the save at the end of main: not args.no_history and config save_history
SavesAtEnd == ~ARGS.no_history /\ config.save_history

\* after the -c command returned: the save, then main returns
SingleShotFinish ==
    /\ pc = "single_done"
    /\ hist_file' = IF SavesAtEnd THEN save_history(command_history) ELSE hist_file
    /\ pc' = "exit0"
    /\ last' = Called("single_finish", <<>>, FALSE, "main", "none",
                      IF SavesAtEnd THEN <<Ev("save_history", <<>>, 0)>> ELSE <<>>)
    /\ UNCHANGED <<fs, cwd, command_history, config, ARGS, platform, calls>>

\* Ctrl+C at the prompt: a hint is printed, the history saved unless
\* --no-history, and the loop goes on
Interrupt ==
    /\ pc = "prompt"
    /\ hist_file' = IF ~ARGS.no_history
                    THEN save_history(command_history) ELSE hist_file
    /\ last' = Called("interrupt", <<>>, FALSE, "main", "none",
                      <<Ev("msg_interrupt", <<>>, 0)>>
                      \o (IF ~ARGS.no_history
                          THEN <<Ev("save_history", <<>>, 0)>> ELSE <<>>))
    /\ UNCHANGED <<fs, cwd, command_history, config, ARGS, platform, calls, pc>>

\* Ctrl+C while the -c command is dispatched: main has no handler around
\* process_single_command there, the KeyboardInterrupt ends the process
InterruptSingleShot ==
    /\ pc = "single"
    /\ pc' = "interrupted"
    /\ last' = Called("interrupt", <<>>, FALSE, "main", "raise",
                      <<Ev("KeyboardInterrupt", <<>>, 0)>>)
    /\ UNCHANGED <<fs, cwd, command_history, hist_file, config, ARGS, platform, calls>>

\* Ctrl+D at the prompt: the loop is left
EndOfInput ==
    /\ pc = "prompt"
    /\ pc' = "finally"
    /\ last' = Called("eof", <<>>, FALSE, "main", "none", <<Ev("msg_bye", <<>>, 0)>>)
    /\ UNCHANGED <<fs, cwd, command_history, hist_file, config, ARGS, platform, calls>>

\* the finally block of the loop
Finally ==
    /\ pc = "finally"
    /\ hist_file' = IF SavesAtEnd THEN save_history(command_history) ELSE hist_file
    /\ pc' = "exit0"
    /\ last' = Called("finally", <<>>, FALSE, "main", "none",
                      IF SavesAtEnd THEN <<Ev("save_history", <<>>, 0)>> ELSE <<>>)
    /\ UNCHANGED <<fs, cwd, command_history, config, ARGS, platform, calls>>

\* the line handed to process_single_command: the -c argument as given with
\* auto_confirm=args.yes, the stripped input of the loop with the default
SessionNext ==
    \/ \E user_config \in ConfigFiles : Startup(user_config)
    \/ \E line \in SessionLines :
          LET command == IF pc = "prompt" THEN strip(line) ELSE line
              auto_confirm == pc = "single" /\ ARGS.yes
          IN  \/ DispatchExit(command, auto_confirm)
              \/ DispatchEmpty(command, auto_confirm)
              \/ DispatchRegistered(command, auto_confirm)
              \/ DispatchExternal(command, auto_confirm)
    \/ SingleShotFinish
    \/ Interrupt
    \/ InterruptSingleShot
    \/ EndOfInput
    \/ Finally

SessionSpec == SessionInit /\ [][SessionNext]_vars

\* ---------------------------------------------------------------------------
\* Vocabulary of the properties below, all read off the last call.
\* ---------------------------------------------------------------------------
Dispatched == last.op = "dispatch"
LastKey == cmd_key_of(last.command)
AutoConfirmInEffect == last.auto_confirm \/ ARGS.yes

CountEv(kinds) ==
    Cardinality({i \in 1..Len(last.out) : last.out[i].ev \in kinds})
Happened(kinds) == CountEv(kinds) > 0

SpawnEvents == {"spawn_shell", "spawn_argv"}
LaunchErrors == {"err_permission", "err_command_not_found", "err_os"}
RmPrompts == {"prompt_rm_high_risk", "prompt_rm_dir", "prompt_rm_file"}
NotFoundErrors == {"err_dir_not_found", "err_file_not_found"}
DirModeEvents == {"err_dir_not_found", "prompt_rm_dir", "rmtree"}

\* a path as the call found it: resolved against the directory it started in
AbsBefore(p) == IF IsAbs(p) THEN p ELSE last.pre.cwd \o <<"/">> \o p
ExistedBefore(p) == p # <<>> /\ AbsBefore(p) \in DOMAIN last.pre.fs
WasDirBefore(p) == ExistedBefore(p) /\ last.pre.fs[AbsBefore(p)].kind = "dir"

\* the line is `rm -r <target>`, and the target the user typed on an rm line
DashR == <<"-","r">>
RmFlagTokens == {<<"-","r">>, <<"-","r","f">>}
IsRmDashR(c) ==
    LET p == split(c) IN Len(p) = 3 /\ p[1] = K_rm /\ p[2] = DashR
TypedTarget(c) ==
    LET p == split(c)
    IN  IF Len(p) >= 2 /\ p[Len(p)] \notin RmFlagTokens THEN p[Len(p)] ELSE <<>>
HasDashRToken(c) == \E i \in 1..Len(split(c)) : split(c)[i] = DashR

\* C1: dispatching `rm -r <dir>` for an existing directory with auto-confirm
\* in effect prints the auto-confirmed notice, removes the directory and
\* returns continue.
C1_RmDirAutoConfirmed ==
    (/\ Dispatched
     /\ IsRmDashR(last.command)
     /\ WasDirBefore(TypedTarget(last.command))
     /\ AutoConfirmInEffect)
    => /\ Happened({"notice_auto_confirm"})
       /\ AbsBefore(TypedTarget(last.command)) \notin DOMAIN fs
       /\ last.ret = "continue"

\* C2: a dispatched external command that is not cancelled at the
\* confirmation gate starts exactly one child process and prints its captured
\* stdout and stderr once (stated for a command whose launch does not fail).
C2_OneChildPerCommand ==
    (/\ Dispatched
     /\ last.route = "external"
     /\ ~Happened({"msg_cancelled"})
     /\ ~Happened(LaunchErrors))
    => /\ CountEv({"child"}) = 1
       /\ CountEv({"print_stdout"}) <= 1
       /\ CountEv({"print_stderr"}) <= 1

\* C3: for a flagged external line that is not auto-confirmed, a
\* confirmation answer other than y/Y cancels: no child process is started
\* for the line and dispatch returns continue.
C3_DeclineStartsNoChild ==
    (/\ Dispatched
     /\ last.route = "external"
     /\ is_high_risk_command(last.command)
     /\ ~AutoConfirmInEffect
     /\ \E i \in 1..Len(last.out) :
           last.out[i].ev = "prompt_exec" /\ ~affirmative(last.out[i].arg))
    => /\ CountEv({"child"}) = 0
       /\ last.ret = "continue"

\* C4: with auto-confirm in effect a flagged external line reaches the
\* process executor without a confirmation answer being read; the prompt is
\* shown only when the line is flagged and auto-confirm is not in effect.
C4_AutoConfirmSkipsPrompt ==
    (Dispatched /\ last.route = "external")
    => /\ Happened({"prompt_exec"})
          => (is_high_risk_command(last.command) /\ ~AutoConfirmInEffect)
       /\ (is_high_risk_command(last.command) /\ AutoConfirmInEffect)
          => Happened(SpawnEvents)

\* C5: dispatching rm on a target that does not exist reports a not-found
\* error and changes nothing on disk, whatever the flags and the answers.
C5_RmMissingReportsNotFound ==
    (/\ Dispatched
     /\ LastKey = K_rm
     /\ TypedTarget(last.command) # <<>>
     /\ ~ExistedBefore(TypedTarget(last.command)))
    => /\ Happened(NotFoundErrors)
       /\ fs = last.pre.fs

\* C6: rm never shows a confirmation prompt, the high-risk prompt included,
\* for a target that does not exist.
C6_NoPromptForMissingTarget ==
    (/\ last.op \in {"dispatch", "handle_rm"}
     /\ LastKey = K_rm
     /\ TypedTarget(last.command) # <<>>
     /\ ~ExistedBefore(TypedTarget(last.command)))
    => ~Happened(RmPrompts)

\* C7: rm takes directory mode only if the target is an existing directory
\* or the line holds the token -r; -r inside a longer token gives plain-file
\* mode.
C7_DirModeNeedsDashRToken ==
    (/\ last.op \in {"dispatch", "handle_rm"}
     /\ LastKey = K_rm
     /\ Happened(DirModeEvents))
    => \/ WasDirBefore(strip(slice(last.command, 3)))
       \/ HasDashRToken(last.command)

\* C8: `rm -r <dir>` with auto-confirm unset and no affirmative answer leaves
\* the directory and its contents on disk, and dispatch returns continue.
C8_DeclinedRmKeepsDir ==
    (/\ Dispatched
     /\ IsRmDashR(last.command)
     /\ WasDirBefore(TypedTarget(last.command))
     /\ ~AutoConfirmInEffect
     /\ \A i \in 1..Len(last.out) :
           last.out[i].ev \in RmPrompts => ~affirmative(last.out[i].arg))
    => /\ \A q \in Under(last.pre.fs, AbsBefore(TypedTarget(last.command))) :
             q \in DOMAIN fs /\ fs[q] = last.pre.fs[q]
       /\ last.ret = "continue"

\* C9: a dispatch that returns, returns stop exactly when the case-folded
\* keyword is exit or quit, and continue for every other line.
C9_StopOnlyOnExitQuit ==
    (Dispatched /\ last.ret # "raise")
    => (last.ret = "stop" <=> LastKey \in {K_exit, K_quit})

\* C10, as stated: a non-empty line whose case-folded first token is none of
\* cd, dir, mkdir, rm, cp, pwd, help, cls, clear, exit, quit goes to the
\* external path.
BuiltinKeywords ==
    {K_cd, K_dir, K_mkdir, K_rm, K_cp, K_pwd, K_help, K_cls, K_clear, K_exit, K_quit}
ToolKeywords ==
    {<<"k","a","l","i","_","t","o","o","l","s">>,
     <<"n","m","a","p">>, <<"m","e","t","a","s","p","l","o","i","t">>,
     <<"b","u","r","p","s","u","i","t","e">>, <<"w","i","r","e","s","h","a","r","k">>,
     <<"j","o","h","n">>, <<"a","i","r","c","r","a","c","k","-","n","g">>,
     <<"s","q","l","m","a","p">>, <<"h","y","d","r","a">>,
     <<"n","i","k","t","o">>, <<"g","o","b","u","s","t","e","r">>}
C11_BlankLineIsIgnored ==
    (Dispatched /\ strip(last.command) = <<>>)
    => /\ command_history = last.pre.history
       /\ last.route = "empty"
       /\ last.out = <<>>
       /\ fs = last.pre.fs /\ cwd = last.pre.cwd /\ hist_file = last.pre.hist_file
       /\ last.ret = "continue"

\* a line holding one blank was dispatched
C11_Witness ==
    /\ Dispatched
    /\ last.command = <<" ">>
    /\ last.route = "empty"
    /\ calls = 1

\* C12: in a session, dispatching a non-blank line equal to the last entry of
\* the history leaves the history as it was (an immediate repeat is never
\* stored as two adjacent entries); dispatching any other non-blank line
\* appends it and keeps every earlier entry in order, so two occurrences of a
\* command separated by another command are both retained.
C12_HistoryCollapsesRepeats ==
    (Dispatched /\ strip(last.command) # <<>>)
    => LET h == last.pre.history
           c == last.command
       IN  IF h # <<>> /\ h[Len(h)] = c
           THEN command_history = h
           ELSE command_history = Append(h, c)

\* pwd, ls, ls were typed: the second ls found ls as the last entry
C12_Witness ==
    /\ Dispatched
    /\ last.command = <<"l","s">>
    /\ last.pre.history = <<K_pwd, <<"l","s">>>>
    /\ command_history = <<K_pwd, <<"l","s">>>>

RiskFragments ==
    {<<"r","m"," ","-","r","f">>, <<"f","o","r","m","a","t"," ">>,
     <<"d","d"," ","i","f","=">>, <<"d","e","l"," ","*">>}
    \cup {config.high_risk_commands[i] : i \in 1..Len(config.high_risk_commands)}
C14_FragmentAnywhereIsFlagged ==
    (/\ Dispatched
     /\ \E frag \in RiskFragments : contains(lower(last.command), lower(frag)))
    => /\ is_high_risk_command(last.command)
       /\ last.route = "external" => (last.out # <<>> /\ last.out[1].ev = "prompt_exec")

\* C15: an external command whose child runs past the configured cmd_timeout
\* ends in the timeout message and nothing else: after the message no child
\* of the command runs and none of its output is printed.
RunEvents == SpawnEvents \cup {"child", "print_stdout", "print_stderr"}
C15_TimeoutEndsTheCommand ==
    (Dispatched /\ last.route = "external")
    => \A i \in 1..Len(last.out) :
           (/\ last.out[i].ev = "err_timeout"
            /\ last.out[i].n = config.cmd_timeout
            /\ config.cmd_timeout > 0)
           => \A j \in (i + 1)..Len(last.out) : last.out[j].ev \notin RunEvents

\* C16: whenever an external command ends in a timeout message, the bound
\* enforced on each of its children and the value printed in each timeout
\* message equal the configured cmd_timeout.
C16_TimeoutIsTheConfiguredOne ==
    (/\ Dispatched
     /\ last.route = "external"
     /\ config.cmd_timeout > 0
     /\ Happened({"err_timeout"}))
    => \A i \in 1..Len(last.out) :
           last.out[i].ev \in SpawnEvents \cup {"child", "err_timeout"}
           => last.out[i].n = config.cmd_timeout

\* C17: every dispatch returns once its prompts are answered: no call waits
\* for ever on a child, every child process it waits on (external command or
\* native listing of dir) being started under a timeout.
C17_EveryChildIsBounded ==
    Dispatched
    => /\ last.ret # "blocked"
       /\ \A i \in 1..Len(last.out) :
              last.out[i].ev \in SpawnEvents \cup {"child"}
              => last.out[i].n # NoTimeout

\* C18: in every state of a session the command timeout of the active
\* configuration is greater than 0, whatever the configuration file held.
C18_TimeoutIsPositive == config.cmd_timeout > 0

\* C19: whenever the history is persisted, at most max_history_size entries
\* are written.
C19_PersistedWithinMaximum ==
    Happened({"save_history"}) => Len(hist_file) <= config.max_history_size

\* C20: in single-shot mode the one command line ends without an uncaught
\* error: the process never dies of an exception of the dispatched command.
C20_SingleShotNeverCrashes == ARGS.command => pc # "crash"

\* C21: an interrupt arriving while a command is read or dispatched is
\* caught and followed by a flush of the history (unless --no-history); the
\* interactive session goes on with the next prompt, the single-shot process
\* goes on to a clean exit.
C21_InterruptIsCaught ==
    last.op = "interrupt"
    => /\ last.ret # "raise"
       /\ ~ARGS.no_history => Happened({"save_history"})
       /\ IF ARGS.command THEN pc \in {"single_done", "exit0"} ELSE pc = "prompt"

\* C22: dispatching `mkdir <path>` when <path> is already a directory reports
\* success, returns continue and leaves the file system as it was, so a
\* second mkdir of the same path changes nothing.
MkdirArg(c) == LET p == split(c) IN IF Len(p) = 2 THEN p[2] ELSE <<>>
C22_MkdirIsIdempotent ==
    (/\ Dispatched
     /\ LastKey = K_mkdir
     /\ WasDirBefore(MkdirArg(last.command)))
    => /\ CountEv({"msg_mkdir_ok"}) = 1
       /\ ~Happened({"err_mkdir_failed", "err_mkdir_no_name"})
       /\ fs = last.pre.fs
       /\ last.ret = "continue"

\* mkdir n was typed a second time in the session
C22_Witness ==
    /\ Dispatched
    /\ last.command = <<"m","k","d","i","r"," ","n">>
    /\ <<"/","w","/","n">> \in DOMAIN last.pre.fs
    /\ fs = last.pre.fs
    /\ last.out # <<>>

\* C23: `cp <src> <dst>` with src an existing file and dst an existing
\* directory creates dst/basename(src) with the content and the modification
\* time of src, and leaves src (and everything else) as it was; with src not
\* an existing file it reports source-not-found and changes nothing on disk.
CpArgs(c) == split(c)
C23_CopyIntoDirectoryKeepsMtime ==
    (Dispatched /\ LastKey = K_cp /\ Len(CpArgs(last.command)) = 3)
    => LET src == CpArgs(last.command)[2]
           dst == CpArgs(last.command)[3]
           pre == last.pre.fs
           new == AbsBefore(dst) \o <<"/">> \o basename(src)
           srcIsFile == ExistedBefore(src) /\ pre[AbsBefore(src)].kind = "file"
       IN  /\ (srcIsFile /\ WasDirBefore(dst) /\ new \notin DOMAIN pre)
              => /\ DOMAIN fs = DOMAIN pre \cup {new}
                 /\ fs[new] = pre[AbsBefore(src)]
                 /\ \A q \in DOMAIN pre : fs[q] = pre[q]
                 /\ Happened({"msg_cp_ok"})
           /\ ~srcIsFile
              => /\ Happened({"err_cp_source_not_found"})
                 /\ fs = pre
           /\ last.ret = "continue"

\* cp f d was dispatched and d/f was created
C23_Witness ==
    /\ Dispatched
    /\ last.command = <<"c","p"," ","f"," ","d">>
    /\ <<"/","w","/","d","/","f">> \in DOMAIN fs
    /\ <<"/","w","/","d","/","f">> \notin DOMAIN last.pre.fs

\* C24: the only path rm removes is the path typed on the line: the path
\* handed to the delete operation equals the typed target, also for names
\* that hold the characters -r.
C24_RmDeletesTheTypedTarget ==
    (last.op \in {"dispatch", "handle_rm"} /\ LastKey = K_rm)
    => /\ \A i \in 1..Len(last.out) :
              last.out[i].ev \in {"rmtree", "remove"}
              => last.out[i].arg = TypedTarget(last.command)
       /\ \A q \in DOMAIN last.pre.fs \ DOMAIN fs :
              q \in Under(last.pre.fs, AbsBefore(TypedTarget(last.command)))

\* C25: dispatching a built-in line with whitespace before it acts on the
\* same argument as the line itself: mkdir creates the directory named by the
\* typed argument and nothing else, cd enters the directory named by it.
LineArg(c) == LET p == split(c) IN IF Len(p) >= 2 THEN p[Len(p)] ELSE <<>>
C25_LeadingBlanksChangeNothing ==
    (/\ Dispatched
     /\ last.command # lstrip(last.command)
     /\ LineArg(last.command) # <<>>)
    => LET arg == LineArg(last.command)
       IN  /\ LastKey = K_mkdir
              => DOMAIN fs = DOMAIN last.pre.fs \cup {AbsBefore(arg)}
           /\ (LastKey = K_cd /\ WasDirBefore(arg)) => cwd = AbsBefore(arg)

\* C26: the history is written to the history file only when --no-history is
\* unset and save_history of the configuration is true, on every path that
\* writes it (exit/quit, interrupt, end of the single-shot command, loop exit).
C26_SaveNeedsBothSwitches ==
    Happened({"save_history"}) => (~ARGS.no_history /\ config.save_history)

\* C27: no text the risk classifier flags is handed to a shell or a child
\* process without an affirmative confirmation before it, on any dispatch
\* path, dir included.
C27_FlaggedTextIsConfirmedFirst ==
    Dispatched
    => \A i \in 1..Len(last.out) :
           (last.out[i].ev \in SpawnEvents /\ is_high_risk_command(last.out[i].arg))
           => \E j \in 1..(i - 1) :
                  /\ last.out[j].ev = "prompt_exec"
                  /\ affirmative(last.out[j].arg)

====
